---- MODULE Spec2Model ----
(***************************************************************************)
(* A model of the mlrust feed-forward neural network:                      *)
(*   src/src/neural_network.rs  (NeuralNetwork, NeuralNetworkLayer)         *)
(*   src/src/array_utils.rs     (sig, sig_prime, randomize_array)           *)
(*                                                                         *)
(* f32 values are modelled in fixed point: a finite value v is the integer *)
(* round(v * One), and the IEEE specials the code can produce (infinity    *)
(* from 1.0 / 0.0, NaN from infinity * 0.0) are kept as separate kinds.    *)
(* An Array2<f32> is a record [rows, cols, data] with data a sequence of   *)
(* rows; a panic of the program is the distinguished array Panic, which    *)
(* every array operation propagates.                                       *)
(*                                                                         *)
(* The sigmoid itself (math_utils::sigf, array_utils::math::sig) and the   *)
(* ColumnVector wrapper are not among the two source files; they are       *)
(* modelled from their description: 1 / (1 + e^-x) element by element, and *)
(* a (d x 1) array.                                                        *)
(*                                                                         *)
(* Every action is one whole call of a public function.  The variable last *)
(* holds the call, its arguments and its outcome until the caller takes it *)
(* (Return); a call that panicked ends the run.                            *)
(***************************************************************************)
EXTENDS Integers, Sequences, FiniteSets, TLC

VARIABLES input_neurons, output_neurons, hidden_layer_sizes, layers,
          learning_rate, trains, last

vars == <<input_neurons, output_neurons, hidden_layer_sizes, layers,
          learning_rate, trains, last>>

----------------------------------------------------------------------------
(* Bounds of the model *)

\* largest number of neurons in any layer, and of rows in any vector
MaxDim == 2
\* largest number of hidden layers given to new
MaxHidden == 1
\* largest number of examples in one train call
MaxBatch == 2
\* largest number of train calls on one network
MaxTrains == 1

----------------------------------------------------------------------------
(* f32 *)

\* the fixed-point representation of 1.0
One == 10^3

Fin(v) == [k |-> "fin", v |-> v]
NaN == [k |-> "nan", v |-> 0]
Inf(s) == [k |-> "inf", v |-> s]

Sign(n) == IF n > 0 THEN 1 ELSE IF n < 0 THEN -1 ELSE 0

Abs(n) == IF n < 0 THEN -n ELSE n

\* n / d rounded to the nearest integer (d > 0)
RoundDiv(n, d) == (2 * n + d) \div (2 * d)

FNeg(a) == IF a.k = "nan" THEN NaN ELSE [a EXCEPT !.v = -a.v]

FAdd(a, b) ==
    IF a.k = "nan" \/ b.k = "nan" THEN NaN
    ELSE IF a.k = "inf" /\ b.k = "inf" THEN (IF a.v = b.v THEN a ELSE NaN)
    ELSE IF a.k = "inf" THEN a
    ELSE IF b.k = "inf" THEN b
    ELSE Fin(a.v + b.v)

FSub(a, b) == FAdd(a, FNeg(b))

FMul(a, b) ==
    IF a.k = "nan" \/ b.k = "nan" THEN NaN
    ELSE IF a.k = "inf" \/ b.k = "inf"
         THEN (IF a.v = 0 \/ b.v = 0 THEN NaN ELSE Inf(Sign(a.v) * Sign(b.v)))
    ELSE Fin(Sign(a.v * b.v) * RoundDiv(Abs(a.v * b.v), One))

FDiv(a, b) ==
    IF a.k = "nan" \/ b.k = "nan" THEN NaN
    ELSE IF a.k = "inf" THEN (IF b.k = "inf" THEN NaN
                              ELSE Inf(a.v * (IF b.v < 0 THEN -1 ELSE 1)))
    ELSE IF b.k = "inf" THEN Fin(0)
    ELSE IF b.v = 0 THEN (IF a.v = 0 THEN NaN ELSE Inf(Sign(a.v)))
    ELSE Fin(Sign(a.v) * Sign(b.v) * RoundDiv(Abs(a.v) * One, Abs(b.v)))

\* `n as f32` for a usize n
AsF32(n) == Fin(n * One)

\* 1000 * sigmoid(k / 4) for k = -32 .. 32
SigTable ==
    <<0, 0, 1, 1, 1, 1, 2, 2, 2, 3, 4, 5, 7, 9, 11, 14, 18, 23, 29, 37, 47,
      60, 76, 95, 119, 148, 182, 223, 269, 321, 378, 438, 500, 562, 622, 679,
      731, 777, 818, 852, 881, 905, 924, 940, 953, 963, 971, 977, 982, 986,
      989, 991, 993, 995, 996, 997, 998, 998, 998, 999, 999, 999, 999, 1000,
      1000>>

\* sigmoid of a finite fixed-point value: the table, linearly interpolated
SigFin(v) ==
    IF v <= -8 * One THEN 0
    ELSE IF v >= 8 * One THEN One
    ELSE LET q    == One \div 4
             u    == v + 8 * One
             i    == u \div q
             r    == u % q
             lo   == SigTable[i + 1]
             hi   == SigTable[i + 2]
         IN  lo + RoundDiv((hi - lo) * r, q)

\* math_utils::sigf: 1 / (1 + e^-x)
sigf(x) ==
    IF x.k = "nan" THEN NaN
    ELSE IF x.k = "inf" THEN (IF x.v > 0 THEN Fin(One) ELSE Fin(0))
    ELSE Fin(SigFin(x.v))

\* math_utils::sigf_prime: sigmoid(x) * (1 - sigmoid(x))
sigf_prime(x) == FMul(sigf(x), FSub(Fin(One), sigf(x)))

----------------------------------------------------------------------------
(* ndarray::Array2<f32> *)

\* the outcome of an operation that panicked
Panic == [rows |-> -1, cols |-> -1, data |-> <<>>]

IsPanic(a) == a.rows = -1

Zeros(r, c) == [rows |-> r, cols |-> c,
                data |-> [i \in 1..r |-> [j \in 1..c |-> Fin(0)]]]

Ones(r, c) == [rows |-> r, cols |-> c,
               data |-> [i \in 1..r |-> [j \in 1..c |-> Fin(One)]]]

RECURSIVE SumTo(_, _)
\* f[1] + ... + f[n] in f32, starting from 0.0
SumTo(f, n) == IF n = 0 THEN Fin(0) ELSE FAdd(SumTo(f, n - 1), f[n])

\* a.dot(b): panics unless a.cols = b.rows
Dot(a, b) ==
    IF IsPanic(a) \/ IsPanic(b) \/ a.cols # b.rows THEN Panic
    ELSE [rows |-> a.rows, cols |-> b.cols,
          data |-> [i \in 1..a.rows |-> [j \in 1..b.cols |->
                      SumTo([k \in 1..a.cols |-> FMul(a.data[i][k], b.data[k][j])],
                            a.cols)]]]

\* a.t()
T(a) ==
    IF IsPanic(a) THEN Panic
    ELSE [rows |-> a.cols, cols |-> a.rows,
          data |-> [i \in 1..a.cols |-> [j \in 1..a.rows |-> a.data[j][i]]]]

\* two axis lengths broadcast together when they are equal or one of them is 1
Broadcastable(m, n) == m = n \/ m = 1 \/ n = 1

BroadcastLen(m, n) == IF m = 1 THEN n ELSE m

\* the element of a at (i, j) once a is broadcast to a larger shape
At(a, i, j) == a.data[IF a.rows = 1 THEN 1 ELSE i][IF a.cols = 1 THEN 1 ELSE j]

\* &a + &b
Plus(a, b) ==
    IF IsPanic(a) \/ IsPanic(b) \/ ~Broadcastable(a.rows, b.rows)
                                \/ ~Broadcastable(a.cols, b.cols) THEN Panic
    ELSE LET r == BroadcastLen(a.rows, b.rows)
             c == BroadcastLen(a.cols, b.cols)
         IN  [rows |-> r, cols |-> c,
              data |-> [i \in 1..r |-> [j \in 1..c |->
                          FAdd(At(a, i, j), At(b, i, j))]]]

\* &a - &b
Minus(a, b) ==
    IF IsPanic(a) \/ IsPanic(b) \/ ~Broadcastable(a.rows, b.rows)
                                \/ ~Broadcastable(a.cols, b.cols) THEN Panic
    ELSE LET r == BroadcastLen(a.rows, b.rows)
             c == BroadcastLen(a.cols, b.cols)
         IN  [rows |-> r, cols |-> c,
              data |-> [i \in 1..r |-> [j \in 1..c |->
                          FSub(At(a, i, j), At(b, i, j))]]]

\* &a * b, element by element
Times(a, b) ==
    IF IsPanic(a) \/ IsPanic(b) \/ ~Broadcastable(a.rows, b.rows)
                                \/ ~Broadcastable(a.cols, b.cols) THEN Panic
    ELSE LET r == BroadcastLen(a.rows, b.rows)
             c == BroadcastLen(a.cols, b.cols)
         IN  [rows |-> r, cols |-> c,
              data |-> [i \in 1..r |-> [j \in 1..c |->
                          FMul(At(a, i, j), At(b, i, j))]]]

\* a += &b: b is broadcast to the shape of a, which is kept
AddAssign(a, b) ==
    IF IsPanic(a) \/ IsPanic(b) THEN Panic
    ELSE IF ~(b.rows = a.rows \/ b.rows = 1) \/ ~(b.cols = a.cols \/ b.cols = 1)
         THEN Panic
    ELSE [rows |-> a.rows, cols |-> a.cols,
          data |-> [i \in 1..a.rows |-> [j \in 1..a.cols |->
                      FAdd(a.data[i][j], At(b, i, j))]]]

\* s * &a for a scalar s
Scale(s, a) ==
    IF IsPanic(a) THEN Panic
    ELSE [rows |-> a.rows, cols |-> a.cols,
          data |-> [i \in 1..a.rows |-> [j \in 1..a.cols |-> FMul(s, a.data[i][j])]]]

\* the array of shape (r x c) whose every element is v
Filled(r, c, v) == [rows |-> r, cols |-> c,
                    data |-> [i \in 1..r |-> [j \in 1..c |-> v]]]

Columns(a) == a.cols

----------------------------------------------------------------------------
(* array_utils *)

\* the n-th value a generator seeded with seed draws from 0.0 ..= 1.0
Draw(seed, n) == (seed * 389 + n * 617) % (One + 1)

\* randomize_array: every element is overwritten by the next draw from
\* lower ..= upper; `drawn` values were drawn from the generator before
randomize_array(arr, lower, upper, seed, drawn) ==
    [rows |-> arr.rows, cols |-> arr.cols,
     data |-> [i \in 1..arr.rows |-> [j \in 1..arr.cols |->
                 FAdd(lower, FMul(FSub(upper, lower),
                                  Fin(Draw(seed, drawn + (i - 1) * arr.cols + j))))]]]

\* array_utils::sig: the loop calls sigf on a copy of each element and drops
\* the value returned; no element is assigned
sig(arr) ==
    [rows |-> arr.rows, cols |-> arr.cols,
     data |-> [i \in 1..arr.rows |-> [j \in 1..arr.cols |->
                 LET dropped == sigf(arr.data[i][j]) IN arr.data[i][j]]]]

\* array_utils::sig_prime: as sig, with sigf_prime
sig_prime(arr) ==
    [rows |-> arr.rows, cols |-> arr.cols,
     data |-> [i \in 1..arr.rows |-> [j \in 1..arr.cols |->
                 LET dropped == sigf_prime(arr.data[i][j]) IN arr.data[i][j]]]]

\* array_utils::math::sig: a new array holding the sigmoid of every element
math_sig(x) ==
    IF IsPanic(x) THEN Panic
    ELSE [rows |-> x.rows, cols |-> x.cols,
          data |-> [i \in 1..x.rows |-> [j \in 1..x.cols |-> sigf(x.data[i][j])]]]

\* array_utils::math::sig_prime: a new array holding sigmoid' of every element
math_sig_prime(x) ==
    IF IsPanic(x) THEN Panic
    ELSE [rows |-> x.rows, cols |-> x.cols,
          data |-> [i \in 1..x.rows |-> [j \in 1..x.cols |->
                      sigf_prime(x.data[i][j])]]]

\* ColumnVector: a (d x 1) array; vector number s of dimension d
ColumnVector(d, s) ==
    [rows |-> d, cols |-> 1,
     data |-> [i \in 1..d |-> <<Fin(Draw(s, i))>>]]

----------------------------------------------------------------------------
(* NeuralNetworkLayer, NeuralNetwork *)

LEARNING_RATE_DEFAULT == Fin(One)

\* NeuralNetworkLayer::new with the two dimensions of the weights exchanged
NeuralNetworkLayer_new_swapped(inputs, neurons) ==
    [weights |-> Zeros(inputs, neurons), biases |-> Ones(neurons, 1)]

NeuralNetworkLayer_new(inputs, neurons) ==
    [weights |-> Zeros(neurons, inputs), biases |-> Ones(neurons, 1)]

RECURSIVE InitLoop(_, _, _)
\* init_network_layers after n turns of its loop over hidden_layer_sizes
InitLoop(inputs, hidden, n) ==
    IF n = 0 THEN [layers |-> <<>>, layer_inputs |-> inputs]
    ELSE LET p == InitLoop(inputs, hidden, n - 1)
         IN  [layers |-> Append(p.layers,
                                NeuralNetworkLayer_new(p.layer_inputs, hidden[n])),
              layer_inputs |-> hidden[n]]

init_network_layers(inputs, outputs, hidden) ==
    LET p == InitLoop(inputs, hidden, Len(hidden))
    IN  Append(p.layers, NeuralNetworkLayer_new(p.layer_inputs, outputs))

RECURSIVE RandomizeLoop(_, _, _)
\* randomize_weights_and_biases after its loop has visited the first n layers
RandomizeLoop(ls, seed, n) ==
    IF n = 0 THEN [layers |-> <<>>, drawn |-> 0]
    ELSE LET p == RandomizeLoop(ls, seed, n - 1)
             w == randomize_array(ls[n].weights, Fin(0), Fin(One), seed, p.drawn)
             d == p.drawn + w.rows * w.cols
             b == randomize_array(ls[n].biases, Fin(0), Fin(One), seed, d)
         IN  [layers |-> Append(p.layers, [weights |-> w, biases |-> b]),
              drawn |-> d + b.rows * b.cols]

randomize_weights_and_biases(ls, seed) == RandomizeLoop(ls, seed, Len(ls)).layers

non_linearity(x) == math_sig(x)

non_linearity_prime(x) == math_sig_prime(x)

calculate_cost(expected, output) == Minus(expected, output)

RECURSIVE FeedLoop_no_bias(_, _, _)
\* the loop of feed_forward without the biases
FeedLoop_no_bias(ls, inputs, n) ==
    IF n = 0 THEN inputs
    ELSE non_linearity(Dot(ls[n].weights, FeedLoop_no_bias(ls, inputs, n - 1)))

RECURSIVE FeedLoop(_, _, _)
\* the activation of feed_forward after its loop has visited the first n layers
FeedLoop(ls, inputs, n) ==
    IF n = 0 THEN inputs
    ELSE LET activation == FeedLoop(ls, inputs, n - 1)
             z == Plus(Dot(ls[n].weights, activation), ls[n].biases)
         IN  non_linearity(z)

feed_forward(ls, inputs) == FeedLoop(ls, inputs, Len(ls))

\* Vec::push(a) in the place of Vec::insert(0, a)
Insert0_push(v, a) == Append(v, a)

\* Vec::insert(0, a)
Insert0(v, a) == <<a>> \o v

RECURSIVE back_prop_recursive(_, _, _, _, _, _)
\* layer_index counts from 0; the value is the array returned, the two vectors
\* as the call leaves them, and whether the call panicked
back_prop_recursive(ls, layer_index, x, expected, wav, bav) ==
    IF layer_index = Len(ls)
    THEN LET cost == calculate_cost(expected, x)
         IN  [ret |-> cost, wav |-> wav, bav |-> bav, panic |-> IsPanic(cost)]
    ELSE LET w       == ls[layer_index + 1].weights
             b       == ls[layer_index + 1].biases
             z       == Plus(Dot(w, x), b)
             result  == non_linearity(z)
             up      == back_prop_recursive(ls, layer_index + 1, result,
                                            expected, wav, bav)
             error   == up.ret
             x_prime == non_linearity_prime(z)
             delta   == Times(error, x_prime)
             wa      == Dot(delta, T(x))
             ret     == Dot(T(w), error)
         IN  [ret |-> ret,
              wav |-> Insert0(up.wav, wa),
              bav |-> Insert0(up.bav, delta),
              panic |-> up.panic \/ IsPanic(delta) \/ IsPanic(wa) \/ IsPanic(ret)]

back_propagate(ls, input, expected) ==
    LET r == back_prop_recursive(ls, 0, input, expected, <<>>, <<>>)
    IN  [wav |-> r.wav, bav |-> r.bav, panic |-> r.panic]

init_zeroed_adjustment_matrices(ls) ==
    [wav |-> [i \in 1..Len(ls) |-> Zeros(ls[i].weights.rows, ls[i].weights.cols)],
     bav |-> [i \in 1..Len(ls) |-> Zeros(ls[i].biases.rows, ls[i].biases.cols)],
     panic |-> FALSE]

\* add_weights_and_biases without the factor 1 / number_of_examples
add_weights_and_biases_no_average(ls, weights, biases, number_of_examples) ==
    [i \in 1..Len(ls) |->
        [weights |-> Minus(ls[i].weights, weights[i]),
         biases  |-> Minus(ls[i].biases, biases[i])]]

add_weights_and_biases(ls, weights, biases, number_of_examples) ==
    [i \in 1..Len(ls) |->
        [weights |-> Minus(ls[i].weights,
                           Scale(FDiv(Fin(One), number_of_examples), weights[i])),
         biases  |-> Minus(ls[i].biases,
                           Scale(FDiv(Fin(One), number_of_examples), biases[i]))]]

\* the inner loop of train: result, the adjustments of one example, is added
\* to the accumulators acc, layer by layer
Accumulate(acc, result) ==
    IF acc.panic \/ result.panic THEN [acc EXCEPT !.panic = TRUE]
    ELSE [wav |-> [j \in 1..Len(acc.wav) |-> AddAssign(acc.wav[j], result.wav[j])],
          bav |-> [j \in 1..Len(acc.bav) |-> AddAssign(acc.bav[j], result.bav[j])],
          panic |-> \E j \in 1..Len(acc.wav) :
                       \/ IsPanic(AddAssign(acc.wav[j], result.wav[j]))
                       \/ IsPanic(AddAssign(acc.bav[j], result.bav[j]))]

RECURSIVE TrainLoop(_, _, _, _)
\* the accumulators of train after its loop has visited the first n examples
TrainLoop(ls, inputs, expected_outputs, n) ==
    IF n = 0 THEN init_zeroed_adjustment_matrices(ls)
    ELSE Accumulate(TrainLoop(ls, inputs, expected_outputs, n - 1),
                    back_propagate(ls, inputs[n], expected_outputs[n]))

\* the last statement of train, reached when nothing before it panicked
TrainApply(ls, acc, number_of_examples) ==
    IF acc.panic THEN [layers |-> ls, panic |-> TRUE]
    ELSE [layers |-> add_weights_and_biases(ls, acc.wav, acc.bav, number_of_examples),
          panic |-> FALSE]

\* one turn of a train that updates the layers after every example
OnlineStep(cur, result, number_of_examples) ==
    IF cur.panic \/ result.panic THEN [cur EXCEPT !.panic = TRUE]
    ELSE [layers |-> add_weights_and_biases(cur.layers, result.wav, result.bav,
                                            number_of_examples),
          panic |-> FALSE]

RECURSIVE OnlineLoop(_, _, _, _)
OnlineLoop(ls, inputs, expected_outputs, n) ==
    IF n = 0 THEN [layers |-> ls, panic |-> FALSE]
    ELSE OnlineStep(OnlineLoop(ls, inputs, expected_outputs, n - 1),
                    back_propagate(OnlineLoop(ls, inputs, expected_outputs, n - 1).layers,
                                   inputs[n], expected_outputs[n]),
                    AsF32(Len(inputs)))

\* train updating the layers example by example
train_online(ls, inputs, expected_outputs) ==
    IF Len(inputs) # Len(expected_outputs) THEN [layers |-> ls, panic |-> TRUE]
    ELSE OnlineLoop(ls, inputs, expected_outputs, Len(inputs))

\* train: the layers it leaves and whether it panicked
train(ls, inputs, expected_outputs) ==
    IF Len(inputs) # Len(expected_outputs) THEN [layers |-> ls, panic |-> TRUE]
    ELSE TrainApply(ls, TrainLoop(ls, inputs, expected_outputs, Len(inputs)),
                    AsF32(Len(inputs)))

\* NeuralNetwork::new up to the network it returns
new(inputs, outputs, hidden, seed) ==
    [input_neurons |-> inputs,
     output_neurons |-> outputs,
     hidden_layer_sizes |-> hidden,
     learning_rate |-> LEARNING_RATE_DEFAULT,
     layers |-> randomize_weights_and_biases(
                    init_network_layers(inputs, outputs, hidden), seed)]

\* NeuralNetwork::from for argument vectors that pass its assertion and are
\* not empty (Vec::with_capacity(n) of arrays has capacity n)
from(weights, biases) ==
    [input_neurons |-> Columns(weights[1]),
     output_neurons |-> Columns(weights[Len(weights)]),
     hidden_layer_sizes |-> <<>>,
     learning_rate |-> LEARNING_RATE_DEFAULT,
     layers |-> [i \in 1..Len(weights) |->
                   [weights |-> weights[i], biases |-> biases[i]]]]

\* whether NeuralNetwork::from panics: its assert_eq, or weights[0] of an empty vector
from_panics(weights, biases) == Len(weights) # Len(biases) \/ Len(weights) = 0

----------------------------------------------------------------------------
(* The arguments the callers pass *)

RECURSIVE SeqsUpTo(_, _)
\* the sequences over S of length at most n
SeqsUpTo(S, n) ==
    IF n = 0 THEN {<<>>}
    ELSE LET shorter == SeqsUpTo(S, n - 1)
         IN  shorter \cup {Append(q, e) : q \in {t \in shorter : Len(t) = n - 1}, e \in S}

Dims == 1..MaxDim

HiddenSizes == SeqsUpTo(Dims, MaxHidden)

\* seeds of the thread's random number generator
Seeds == {1, 2}

\* the vectors callers pass: two of every dimension
VectorIds == {1, 2}

Vectors == {ColumnVector(d, s) : d \in Dims, s \in VectorIds}

\* the layer widths input -> hidden ... -> output of a fixture network
Widths == {<<i>> \o h \o <<o>> : i \in Dims, o \in Dims, h \in HiddenSizes}

\* fixture weights and biases for from: every weight w and every bias b
FixtureWeights(widths, w) ==
    [i \in 1..Len(widths) - 1 |-> Filled(widths[i + 1], widths[i], w)]

FixtureBiases(widths, b) ==
    [i \in 1..Len(widths) - 1 |-> Filled(widths[i + 1], 1, b)]

\* zero weights with biases 0.5, and weights 1 with biases 0
FixtureFills == {<<Fin(0), Fin(One \div 2)>>, <<Fin(One), Fin(0)>>}

\* from is given fixture networks of one or two layers, a weights vector
\* without biases, and two empty vectors
FromArgs ==
    {<<FixtureWeights(ws, f[1]), FixtureBiases(ws, f[2])>> :
        ws \in {w \in Widths : Len(w) <= 3}, f \in FixtureFills}
    \cup {<<FixtureWeights(<<1, 1>>, Fin(One)), <<>>>>, <<<<>>, <<>>>>}

\* a batch of n vectors of dimension d, but for vector number odd (if any),
\* whose dimension is another one
Batch(n, d, odd, s) ==
    [k \in 1..n |-> ColumnVector(IF k = odd THEN (d % MaxDim) + 1 ELSE d, s + k)]

\* the (inputs, expected_outputs) pairs given to train: batches of one
\* dimension each, batches in which one input or one expected output has
\* another dimension, and batches whose lengths differ by one
TrainArgs ==
    {<<Batch(n, xd, 0, 0), Batch(n, ed, 0, MaxBatch)>> :
        n \in 0..MaxBatch, xd \in Dims, ed \in Dims}
    \cup {<<Batch(n, d, odd, 0), Batch(n, d, 0, MaxBatch)>> :
        n \in 1..MaxBatch, d \in Dims, odd \in 1..MaxBatch}
    \cup {<<Batch(n, d, 0, 0), Batch(n, d, odd, MaxBatch)>> :
        n \in 1..MaxBatch, d \in Dims, odd \in 1..MaxBatch}
    \cup {<<Batch(n, 1, 0, 0), Batch(n + 1, 1, 0, MaxBatch)>> : n \in 0..MaxBatch - 1}
    \cup {<<Batch(n + 1, 1, 0, 0), Batch(n, 1, 0, MaxBatch)>> : n \in 0..MaxBatch - 1}

\* the expected outputs given to back_propagate: one of every dimension
Expected == {ColumnVector(d, MaxBatch + 1) : d \in Dims}

\* the arrays given to sig and sig_prime
Arrays == {ColumnVector(d, 1) : d \in Dims} \cup {Zeros(d, d) : d \in Dims}

----------------------------------------------------------------------------
(* The state machine *)

\* last: the latest call, its arguments, what it returned, whether it
\* panicked, and the layers the network had when it was called
Call(op, args, ret, panicked, before) ==
    [op |-> op, args |-> args, ret |-> ret, panicked |-> panicked, before |-> before]

Init ==
    /\ input_neurons = 0
    /\ output_neurons = 0
    /\ hidden_layer_sizes = <<>>
    /\ layers = <<>>
    /\ learning_rate = LEARNING_RATE_DEFAULT
    /\ trains = 0
    /\ last = Call("none", <<>>, <<>>, FALSE, <<>>)

\* no call is under way: the caller has taken the latest call's result
\* (a call that panicked never returns to its caller)
Idle == last.op = "none"

\* from panics on empty vectors and new always pushes the output layer
Constructed == Len(layers) > 0

Install(net) ==
    /\ input_neurons' = net.input_neurons
    /\ output_neurons' = net.output_neurons
    /\ hidden_layer_sizes' = net.hidden_layer_sizes
    /\ learning_rate' = net.learning_rate
    /\ layers' = net.layers

New ==
    /\ Idle /\ ~Constructed
    /\ \E i \in Dims, o \in Dims, h \in HiddenSizes, seed \in Seeds :
          /\ Install(new(i, o, h, seed))
          /\ last' = Call("new", <<i, o, h>>, <<>>, FALSE, layers)
    /\ UNCHANGED trains

From ==
    /\ Idle /\ ~Constructed
    /\ \E a \in FromArgs :
          IF from_panics(a[1], a[2])
          THEN /\ last' = Call("from", a, <<>>, TRUE, layers)
               /\ UNCHANGED <<input_neurons, output_neurons, hidden_layer_sizes,
                              layers, learning_rate>>
          ELSE /\ Install(from(a[1], a[2]))
               /\ last' = Call("from", a, <<>>, FALSE, layers)
    /\ UNCHANGED trains

FeedForward ==
    /\ Idle /\ Constructed
    /\ \E x \in Vectors :
          LET out == feed_forward(layers, x)
          IN  last' = Call("feed_forward", <<x>>, out, IsPanic(out), layers)
    /\ UNCHANGED <<input_neurons, output_neurons, hidden_layer_sizes, layers,
                   learning_rate, trains>>

BackPropagate ==
    /\ Idle /\ Constructed
    /\ \E x \in Vectors, e \in Expected :
          LET r == back_propagate(layers, x, e)
          IN  last' = Call("back_propagate", <<x, e>>,
                           IF r.panic THEN <<>> ELSE <<r.wav, r.bav>>,
                           r.panic, layers)
    /\ UNCHANGED <<input_neurons, output_neurons, hidden_layer_sizes, layers,
                   learning_rate, trains>>

\* the state train leaves when r is its outcome on the arguments a
Returned(r, a) ==
    /\ layers' = r.layers
    /\ last' = Call("train", a, <<>>, r.panic, layers)

Train ==
    /\ Idle /\ Constructed
    /\ trains < MaxTrains
    /\ \E a \in TrainArgs :
          Returned(train(layers, a[1], a[2]), a)
    /\ trains' = trains + 1
    /\ UNCHANGED <<input_neurons, output_neurons, hidden_layer_sizes, learning_rate>>

\* sig and sig_prime work in place: ret is the array as the call leaves it
Sig ==
    /\ Idle
    /\ \E arr \in Arrays : last' = Call("sig", <<arr>>, sig(arr), FALSE, layers)
    /\ UNCHANGED <<input_neurons, output_neurons, hidden_layer_sizes, layers,
                   learning_rate, trains>>

SigPrime ==
    /\ Idle
    /\ \E arr \in Arrays :
          last' = Call("sig_prime", <<arr>>, sig_prime(arr), FALSE, layers)
    /\ UNCHANGED <<input_neurons, output_neurons, hidden_layer_sizes, layers,
                   learning_rate, trains>>

\* the caller takes the result of the call that returned
Return ==
    /\ ~Idle /\ ~last.panicked
    /\ last' = Call("none", <<>>, <<>>, FALSE, <<>>)
    /\ UNCHANGED <<input_neurons, output_neurons, hidden_layer_sizes, layers,
                   learning_rate, trains>>

Next ==
    New \/ From \/ FeedForward \/ BackPropagate \/ Train \/ Sig \/ SigPrime \/ Return

Spec == Init /\ [][Next]_vars

\* a caller that constructs a network and only queries it
NextQuery ==
    New \/ From \/ FeedForward \/ BackPropagate \/ Sig \/ SigPrime \/ Return

SpecQuery == Init /\ [][NextQuery]_vars

\* a caller that constructs a network and only trains it
NextTrain == New \/ From \/ Train \/ Return

SpecTrain == Init /\ [][NextTrain]_vars

----------------------------------------------------------------------------
(* What the claims speak of, element by element *)

Shape(a) == <<a.rows, a.cols>>

\* a holds r rows of c elements each
WellFormed(a, r, c) ==
    /\ a.rows = r /\ a.cols = c
    /\ Len(a.data) = r
    /\ \A i \in 1..r : Len(a.data[i]) = c

AsColumn(q) == [rows |-> Len(q), cols |-> 1, data |-> [r \in 1..Len(q) |-> <<q[r]>>]]

RECURSIVE Activation(_, _, _), PreActivation(_, _, _)
\* the output of layer n (of the input itself for n = 0), as a sequence
Activation(ls, x, n) ==
    IF n = 0 THEN [r \in 1..x.rows |-> x.data[r][1]]
    ELSE [r \in 1..ls[n].weights.rows |-> sigf(PreActivation(ls, x, n)[r])]

\* z of layer n: weights . (output of layer n - 1) + biases
PreActivation(ls, x, n) ==
    [r \in 1..ls[n].weights.rows |->
        FAdd(SumTo([c \in 1..ls[n].weights.cols |->
                       FMul(ls[n].weights.data[r][c], Activation(ls, x, n - 1)[c])],
                   ls[n].weights.cols),
             ls[n].biases.data[r][1])]

\* the example (x, e) has the dimensions of the network ls
Dimensioned(ls, x, e) ==
    /\ Len(ls) > 0
    /\ x.rows = ls[1].weights.cols /\ x.cols = 1
    /\ e.rows = ls[Len(ls)].weights.rows /\ e.cols = 1

AllWeightsZero(ls) ==
    \A i \in 1..Len(ls) : \A r \in 1..ls[i].weights.rows, c \in 1..ls[i].weights.cols :
        ls[i].weights.data[r][c] = Fin(0)

AllBiasesAre(ls, b) ==
    \A i \in 1..Len(ls) : \A r \in 1..ls[i].biases.rows : ls[i].biases.data[r][1] = b

AllFinite(ls) ==
    \A i \in 1..Len(ls) :
        /\ \A r \in 1..ls[i].weights.rows, c \in 1..ls[i].weights.cols :
              ls[i].weights.data[r][c].k = "fin"
        /\ \A r \in 1..ls[i].biases.rows : ls[i].biases.data[r][1].k = "fin"

\* the width of every stage of a network built by new(i, o, h)
WidthsOf(i, o, h) == <<i>> \o h \o <<o>>

----------------------------------------------------------------------------
(* C1 *)

\* C1: new(input_neurons, output_neurons, [h1..hk]) leaves exactly k + 1 layers,
\* and layer i has weights of shape (width[i+1] x width[i]) and biases of shape
\* (width[i+1] x 1), for width = [input_neurons, h1, ..., hk, output_neurons].
C1_NewLayerShapes ==
    last.op = "new" =>
        LET width == WidthsOf(last.args[1], last.args[2], last.args[3])
        IN  /\ Len(layers) = Len(last.args[3]) + 1
            /\ \A i \in 1..Len(layers) :
                  /\ WellFormed(layers[i].weights, width[i + 1], width[i])
                  /\ WellFormed(layers[i].biases, width[i + 1], 1)

\* new was called with a hidden layer whose width is neither the input's nor
\* the output's
C1_Witness ==
    /\ last.op = "new"
    /\ Len(last.args[3]) >= 1
    /\ last.args[3][1] # last.args[1]
    /\ last.args[3][1] # last.args[2]

----------------------------------------------------------------------------
(* C2 *)

\* C2: in every state of a constructed network the first layer's weights have
\* input_neurons columns, the last layer's weights have output_neurons rows, and
\* the rows of layer i's weights are the columns of layer i + 1's weights.
C2_NetworkDimensions ==
    Constructed =>
        /\ layers[1].weights.cols = input_neurons
        /\ layers[Len(layers)].weights.rows = output_neurons
        /\ \A i \in 1..Len(layers) - 1 :
              layers[i].weights.rows = layers[i + 1].weights.cols

----------------------------------------------------------------------------
(* C3 *)

\* C3: feed_forward(input) returns what is obtained by starting from the input
\* and replacing, layer after layer, the activation by
\* sigmoid(weights . activation + biases); it changes no layer; and on zero
\* weights with all biases b every output element is sigmoid(b).
C3_FeedForward ==
    (last.op = "feed_forward" /\ ~last.panicked) =>
        /\ last.ret = AsColumn(Activation(layers, last.args[1], Len(layers)))
        /\ layers = last.before
        /\ \A b \in {layers[1].biases.data[1][1]} :
              (AllWeightsZero(layers) /\ AllBiasesAre(layers, b)) =>
                  \A r \in 1..last.ret.rows : last.ret.data[r][1] = sigf(b)

\* feed_forward returned on a two-layer network of zero weights and equal,
\* non-zero biases
C3_Witness ==
    /\ last.op = "feed_forward" /\ ~last.panicked
    /\ Len(layers) = 2
    /\ AllWeightsZero(layers)
    /\ AllBiasesAre(layers, Fin(One \div 2))
    /\ last.ret.rows = MaxDim

----------------------------------------------------------------------------
(* C4 *)

\* C4: on a network of n layers back_propagate returns n weight adjustments and
\* n bias adjustments; entry i has the shape of layer i's weights, respectively
\* biases, and is the adjustment of layer i: for an example of the network's
\* dimensions the weight adjustment i is the outer product of bias adjustment i
\* (delta) with the input of layer i, and the last bias adjustment is
\* (expected - output) * sigmoid'(z) of the last layer.
C4_AdjustmentsAligned ==
    (last.op = "back_propagate" /\ ~last.panicked) =>
        LET wav == last.ret[1]
            bav == last.ret[2]
            x   == last.args[1]
            e   == last.args[2]
            n   == Len(layers)
        IN  /\ Len(wav) = n /\ Len(bav) = n
            /\ \A i \in 1..n :
                  /\ Shape(wav[i]) = Shape(layers[i].weights)
                  /\ Shape(bav[i]) = Shape(layers[i].biases)
            /\ Dimensioned(layers, x, e) =>
                  /\ \A i \in 1..n :
                        \A r \in 1..wav[i].rows, c \in 1..wav[i].cols :
                            wav[i].data[r][c] =
                                FMul(bav[i].data[r][1], Activation(layers, x, i - 1)[c])
                  /\ \A r \in 1..bav[n].rows :
                        bav[n].data[r][1] =
                            FMul(FSub(e.data[r][1], Activation(layers, x, n)[r]),
                                 sigf_prime(PreActivation(layers, x, n)[r]))

\* back_propagate returned on a two-layer network whose layers differ in shape,
\* for an example of the network's dimensions
C4_Witness ==
    /\ last.op = "back_propagate" /\ ~last.panicked
    /\ Len(layers) = 2
    /\ Shape(layers[1].weights) # Shape(layers[2].weights)
    /\ Dimensioned(layers, last.args[1], last.args[2])
    /\ last.ret[2][1] # Zeros(layers[1].biases.rows, 1)

----------------------------------------------------------------------------
(* C5 *)

RECURSIVE Adjustments(_, _, _, _)
\* back_propagate of each of the first n examples of a batch, every one of
\* them evaluated on the layers ls
Adjustments(ls, inputs, expected_outputs, n) ==
    IF n = 0 THEN <<>>
    ELSE Append(Adjustments(ls, inputs, expected_outputs, n - 1),
                back_propagate(ls, inputs[n], expected_outputs[n]))

\* now is old - (1/N) * (the sum of the N adjustments adj), element by element
AveragedUpdate(old, now, adj, N) ==
    /\ Len(now) = Len(old)
    /\ \A i \in 1..Len(old) :
          /\ Shape(now[i].weights) = Shape(old[i].weights)
          /\ Shape(now[i].biases) = Shape(old[i].biases)
          /\ \A r \in 1..old[i].weights.rows, c \in 1..old[i].weights.cols :
                now[i].weights.data[r][c] =
                    FSub(old[i].weights.data[r][c],
                         FMul(FDiv(Fin(One), AsF32(N)),
                              SumTo([k \in 1..N |-> adj[k].wav[i].data[r][c]], N)))
          /\ \A r \in 1..old[i].biases.rows :
                now[i].biases.data[r][1] =
                    FSub(old[i].biases.data[r][1],
                         FMul(FDiv(Fin(One), AsF32(N)),
                              SumTo([k \in 1..N |-> adj[k].bav[i].data[r][1]], N)))

----------------------------------------------------------------------------
(* C6 *)

\* C6: whenever train fails, because its two arguments differ in length or
\* because an example at any position has a wrong dimension, no layer's weights
\* or biases have changed.
C6_FailedTrainChangesNothing ==
    (last.op = "train" /\ last.panicked) => layers = last.before

\* train failed on the second example of a batch whose first example the
\* network accepts
C6_Witness ==
    /\ last.op = "train" /\ last.panicked
    /\ Len(last.args[1]) = 2 /\ Len(last.args[2]) = 2
    /\ ~back_propagate(last.before, last.args[1][1], last.args[2][1]).panic
    /\ back_propagate(last.before, last.args[1][2], last.args[2][2]).panic

----------------------------------------------------------------------------
(* C7 *)

\* the squared difference between the output of ls for x and e
SquaredError(ls, x, e) ==
    LET out == feed_forward(ls, x)
        d == [r \in 1..e.rows |-> out.data[r][1].v - e.data[r][1].v]
        Sq[r \in 0..e.rows] == IF r = 0 THEN 0 ELSE Sq[r - 1] + d[r] * d[r]
    IN  Sq[e.rows]

\* C7: on a one-layer network, one call of train with the single example
\* (x, e) brings the output for x closer to e: the squared difference after the
\* call is smaller than before it (for weights that are finite numbers and an
\* output that differs from e).
C7_TrainReducesError ==
    (/\ last.op = "train" /\ ~last.panicked
     /\ Len(last.before) = 1
     /\ Len(last.args[1]) = 1
     /\ Dimensioned(last.before, last.args[1][1], last.args[2][1])
     /\ AllFinite(last.before)
     /\ SquaredError(last.before, last.args[1][1], last.args[2][1]) > 0)
    => SquaredError(layers, last.args[1][1], last.args[2][1])
           < SquaredError(last.before, last.args[1][1], last.args[2][1])

----------------------------------------------------------------------------
(* C8 *)

\* C8: on a network of two or more layers, the error handed from layer i to
\* layer i - 1 is (weights_i transposed) . delta_i, with delta_i the bias
\* adjustment of layer i; so the bias adjustment of layer i - 1 is
\* ((weights_i transposed) . delta_i) * sigmoid'(z) of layer i - 1.
C8_ErrorIsTransposeTimesDelta ==
    (/\ last.op = "back_propagate" /\ ~last.panicked
     /\ Len(layers) >= 2
     /\ Dimensioned(layers, last.args[1], last.args[2]))
    => \A i \in 2..Len(layers) :
          last.ret[2][i - 1] =
              Times(Dot(T(layers[i].weights), last.ret[2][i]),
                    math_sig_prime(AsColumn(PreActivation(layers, last.args[1], i - 1))))

----------------------------------------------------------------------------
(* C9 *)

\* C9: after sig(arr) every element of arr is sigmoid(v) of the value v it held
\* before, after sig_prime(arr) it is sigmoid(v) * (1 - sigmoid(v)), and the
\* shape of arr is unchanged.
C9_ActivationInPlace ==
    /\ last.op = "sig" =>
          /\ Shape(last.ret) = Shape(last.args[1])
          /\ \A r \in 1..last.ret.rows, c \in 1..last.ret.cols :
                last.ret.data[r][c] = sigf(last.args[1].data[r][c])
    /\ last.op = "sig_prime" =>
          /\ Shape(last.ret) = Shape(last.args[1])
          /\ \A r \in 1..last.ret.rows, c \in 1..last.ret.cols :
                last.ret.data[r][c] =
                    FMul(sigf(last.args[1].data[r][c]),
                         FSub(Fin(One), sigf(last.args[1].data[r][c])))

----------------------------------------------------------------------------
(* C10 *)

\* C10: train on an empty batch completes and leaves every layer's weights and
\* biases as they were.
C10_EmptyBatchChangesNothing ==
    (last.op = "train" /\ last.args[1] = <<>> /\ last.args[2] = <<>>) =>
        /\ ~last.panicked
        /\ layers = last.before

====
